---- MODULE Spec2Model ----
(***************************************************************************)
(* A model of Garfiled/dlog: the pooled text encoder (src/meta.go, second   *)
(* half), the level gate of Meta (src/meta.go, first half), the package     *)
(* level log path (src/unnamed/part_000) and the locked write syncer        *)
(* (src/unnamed/part_001).                                                  *)
(*                                                                          *)
(* Bytes are sequences of one-character strings.  A []byte slice is a pair  *)
(* (arr, len) over a backing array mem[arr], so that aliasing between two   *)
(* encoders is something the model can express.                             *)
(***************************************************************************)
EXTENDS Integers, Sequences, FiniteSets, TLC

\* ------------------------------------------------------------------ bounds
MaxEnc == 5
MaxCalls == 2
MaxOps == 4
MaxInits == 2

\* --------------------------------------------------------------- constants
\* The Level type is declared in a file that is not part of src/; the six
\* standard levels are the ascending integers of the original package.
DebugLevel == -1
InfoLevel == 0
WarnLevel == 1
ErrorLevel == 2
PanicLevel == 3
FatalLevel == 4

StdLevels == {DebugLevel, InfoLevel, WarnLevel, ErrorLevel, PanicLevel, FatalLevel}

EncId == 1..MaxEnc
NoEnc == 0

RFC3339 == "R"
NoTimeFmt == ""

\* error values
Nil == [kind |-> "nil"]
ErrSink == [kind |-> "sink"]
ErrMarshal == [kind |-> "marshal"]
\* not an error value: the call did not return, a panic is unwinding it
Unwound == [kind |-> "panic"]
ErrIncomplete(n, expected) == [kind |-> "incomplete", n |-> n, expected |-> expected]

\* ------------------------------------------------------------ conversions
Digit(d) == CASE d = 0 -> "0" [] d = 1 -> "1" [] d = 2 -> "2" [] d = 3 -> "3"
              [] d = 4 -> "4" [] d = 5 -> "5" [] d = 6 -> "6" [] d = 7 -> "7"
              [] d = 8 -> "8" [] OTHER -> "9"

RECURSIVE UDec(_)
\* strconv.AppendUint(_, n, 10) for n >= 0
UDec(n) == IF n < 10 THEN <<Digit(n)>> ELSE UDec(n \div 10) \o <<Digit(n % 10)>>

\* strconv.AppendInt(_, n, 10)
AppendInt(n) == IF n < 0 THEN <<"-">> \o UDec(-n) ELSE UDec(n)

\* t.AppendFormat(_, layout): the layout's rendering of instant t
AppendFormat(t, layout) == <<layout>> \o UDec(t)

\* ------------------------------------------------------------- byte slices
\* a heap H is [enc |-> [EncId -> encoder], mem |-> [EncId -> Seq(char)],
\*              pool |-> [EncId -> Nat], alloc |-> SUBSET EncId]
\* the bytes a slice (arr, len) shows
SliceBytes(H, arr, len) ==
    [i \in 1..len |-> IF i <= Len(H.mem[arr]) THEN H.mem[arr][i] ELSE "?"]

Bytes(H, e) == SliceBytes(H, H.enc[e].arr, H.enc[e].len)

\* the longest slice any encoder has over array a
MaxLen(enc, a) ==
    LET ls == {enc[e].len : e \in {x \in EncId : enc[x].arr = a}}
    IN IF ls = {} THEN 0 ELSE CHOOSE l \in ls : \A o \in ls : o <= l

\* An array is kept up to the longest slice over it: what lies beyond every
\* slice can be read by nobody.
Trim(H, a) ==
    [H EXCEPT !.mem[a] = IF Len(@) > MaxLen(H.enc, a)
                         THEN SubSeq(@, 1, MaxLen(H.enc, a)) ELSE @]

\* writing s into array m at positions pos+1 .. pos+Len(s)
Overwrite(m, pos, s) ==
    LET n == IF Len(m) > pos + Len(s) THEN Len(m) ELSE pos + Len(s)
    IN [i \in 1..n |-> IF i > pos /\ i <= pos + Len(s) THEN s[i - pos]
                       ELSE IF i <= Len(m) THEN m[i] ELSE "?"]

\* enc.bytes = append(enc.bytes, s...); the lines of this model stay within the
\* 1024 bytes a new buffer has, so append never moves the slice to a new array
append(H, e, s) ==
    Trim([H EXCEPT !.enc[e].len = @ + Len(s),
                   !.mem[H.enc[e].arr] = Overwrite(@, H.enc[e].len, s)],
         H.enc[e].arr)

\* a truncate that leaves the slice as it is
truncateKeep(H, e) == H

\* enc.bytes = enc.bytes[:0]
truncate(H, e) == Trim([H EXCEPT !.enc[e].len = 0], H.enc[e].arr)

\* the value textPool's New returns, for the object with identity e
NewEncoder(e) == [arr |-> e, len |-> 0, timeFmt |-> NoTimeFmt, firstNested |-> FALSE]

\* The Add methods work on one encoder only; they are written over its
\* buffer value B = [bytes, firstNested] and stored back by Store.
Buf(H, e) == [bytes |-> Bytes(H, e), firstNested |-> H.enc[e].firstNested]

\* the appends of the Add methods, as they land in the array of e: B extends
\* the bytes of e, which are written over with themselves
Store(H, e, B) ==
    Trim([H EXCEPT !.enc[e].len = Len(B.bytes),
                   !.enc[e].firstNested = B.firstNested,
                   !.mem[H.enc[e].arr] = Overwrite(@, 0, B.bytes)],
         H.enc[e].arr)

\* ---------------------------------------------------------- field addition
\* an addKey that does not know the firstNested flag
addKeyNoFlag(B, key) ==
    IF Len(B.bytes) - 1 >= 0
    THEN [B EXCEPT !.bytes = @ \o <<" ">> \o key \o <<"=">>]
    ELSE [bytes |-> B.bytes \o key \o <<"=">>, firstNested |-> FALSE]

addKey(B, key) ==
    IF Len(B.bytes) - 1 >= 0 /\ ~B.firstNested
    THEN [B EXCEPT !.bytes = @ \o <<" ">> \o key \o <<"=">>]
    ELSE [bytes |-> B.bytes \o key \o <<"=">>, firstNested |-> FALSE]

\* an AddString that leaves out a fragment the buffer already ends with
AddStringOnce(B, key, val) ==
    LET frag == key \o <<"=">> \o val
        n == Len(B.bytes)
    IN IF n >= Len(frag) /\ SubSeq(B.bytes, n - Len(frag) + 1, n) = frag
       THEN B
       ELSE [addKey(B, key) EXCEPT !.bytes = @ \o val]

AddString(B, key, val) == [addKey(B, key) EXCEPT !.bytes = @ \o val]

AddInt64(B, key, val) == [addKey(B, key) EXCEPT !.bytes = @ \o AppendInt(val)]

AddInt(B, key, val) == AddInt64(B, key, val)

AddBool(B, key, val) ==
    [addKey(B, key) EXCEPT !.bytes = @ \o
        IF val THEN <<"t", "r", "u", "e">> ELSE <<"f", "a", "l", "s", "e">>]

\* fmt.Sprintf("%+v", obj) for an integer or a string
Sprintf(obj) == IF obj.t = "int" THEN AppendInt(obj.v) ELSE obj.v

\* AddObject always returns nil
AddObject(B, key, obj) == AddString(B, key, Sprintf(obj))

RECURSIVE AddTo(_, _)
RECURSIVE MarshalLog(_, _, _)

\* obj.MarshalLog(enc): the object adds its fields in order, then returns its
\* error, or panics
MarshalLog(obj, B, i) ==
    IF i > Len(obj.fields)
    THEN [B |-> B, err |-> IF obj.panics THEN Unwound ELSE obj.err]
    ELSE LET r == AddTo(B, obj.fields[i])
         IN IF r.err = Unwound THEN r ELSE MarshalLog(obj, r.B, i + 1)

\* an AddMarshaler that returns as soon as the callback has failed
AddMarshalerReturnEarly(B, key, obj) ==
    LET B1 == [bytes |-> addKey(B, key).bytes \o <<"{">>, firstNested |-> TRUE]
        r  == MarshalLog(obj, B1, 1)
    IN IF r.err # Nil THEN r
       ELSE [B |-> [bytes |-> r.B.bytes \o <<"}">>, firstNested |-> FALSE], err |-> r.err]

AddMarshaler(B, key, obj) ==
    LET B1 == [bytes |-> addKey(B, key).bytes \o <<"{">>, firstNested |-> TRUE]
        r  == MarshalLog(obj, B1, 1)
    IN IF r.err = Unwound THEN r
       ELSE [B |-> [bytes |-> r.B.bytes \o <<"}">>, firstNested |-> FALSE], err |-> r.err]

\* Field.AddTo: dispatch on the field's kind to the encoder's Add method
AddTo(B, f) ==
    CASE f.kind = "String" -> [B |-> AddString(B, f.key, f.val), err |-> Nil]
      [] f.kind = "Int" -> [B |-> AddInt(B, f.key, f.val), err |-> Nil]
      [] f.kind = "Bool" -> [B |-> AddBool(B, f.key, f.val), err |-> Nil]
      [] f.kind = "Object" -> [B |-> AddObject(B, f.key, f.obj), err |-> Nil]
      [] OTHER -> AddMarshaler(B, f.key, f.obj)

RECURSIVE addFieldsFrom(_, _, _, _)
addFieldsFrom(B, fields, i, err) ==
    IF i > Len(fields) THEN [B |-> B, err |-> err]
    ELSE LET r == AddTo(B, fields[i])
         IN IF r.err = Unwound THEN r
            ELSE addFieldsFrom(r.B, fields, i + 1, IF err = Nil THEN r.err ELSE err)

\* addFields(kv, fields): every field is added in order; .err is the first error
\* an AddMarshaler returned on the way
addFields(B, fields) == addFieldsFrom(B, fields, 1, Nil)

\* ------------------------------------------------------------- entry header
LevelTag(lvl) ==
    CASE lvl = DebugLevel -> <<"D">>
      [] lvl = InfoLevel -> <<"I">>
      [] lvl = WarnLevel -> <<"W">>
      [] lvl = ErrorLevel -> <<"E">>
      [] lvl = PanicLevel -> <<"P">>
      [] lvl = FatalLevel -> <<"F">>
      [] OTHER -> AppendInt(lvl)

\* each of these gives the bytes the method appends to final
addLevel(lvl) == <<"[">> \o LevelTag(lvl) \o <<"]">>

\* an addTime that does not look at the layout
addTimeAlways(timeFmt, t) == <<" ">> \o AppendFormat(t, timeFmt)

addTime(timeFmt, t) ==
    IF timeFmt = NoTimeFmt THEN <<>> ELSE <<" ">> \o AppendFormat(t, timeFmt)

addCaller(caller, line) == <<" ", "[">> \o caller \o <<":">> \o AppendInt(line) \o <<"]">>

addMessage(msg) == <<" ">> \o msg

\* WriteEntry up to the write: the line is assembled in the buffer of final
WriteEntryAssemble(H, e, final, caller, line, msg, lvl, t) ==
    LET ctx == Bytes(H, e)
        head == addLevel(lvl) \o addTime(H.enc[e].timeFmt, t)
                  \o addCaller(caller, line) \o addMessage(msg)
        body == IF H.enc[e].len > 0 THEN head \o <<" ">> \o ctx ELSE head
    IN append(truncate(H, final), final, body \o <<"\n">>)

\* a WriteEntry that looks at the count before it looks at the error
WriteEntryResultCountFirst(n, err, expectedBytes) ==
    IF n # expectedBytes THEN ErrIncomplete(n, expectedBytes)
    ELSE IF err # Nil THEN err
    ELSE Nil

\* WriteEntry after the write: the error it returns for the outcome (n, err)
WriteEntryResult(n, err, expectedBytes) ==
    IF err # Nil THEN err
    ELSE IF n # expectedBytes THEN ErrIncomplete(n, expectedBytes)
    ELSE Nil

\* a Clone that takes over the slice of the original: clone.bytes = enc.bytes
CloneIntoAlias(H, e, clone) ==
    [H EXCEPT !.enc[clone].arr = H.enc[e].arr,
              !.enc[clone].len = H.enc[e].len,
              !.enc[clone].timeFmt = H.enc[e].timeFmt,
              !.enc[clone].firstNested = H.enc[e].firstNested]

\* Clone after the pool handed out clone
CloneInto(H, e, clone) ==
    [append(truncate(H, clone), clone, Bytes(H, e))
        EXCEPT !.enc[clone].timeFmt = H.enc[e].timeFmt,
               !.enc[clone].firstNested = H.enc[e].firstNested]

\* err.Error()
ErrorText(err) ==
    CASE err.kind = "sink" -> <<"i", "o">>
      [] err.kind = "marshal" -> <<"m">>
      [] err.kind = "incomplete" -> AppendInt(err.n) \o <<"/">> \o AppendInt(err.expected)
      [] OTHER -> <<>>

\* ------------------------------------------------------------------- pool
\* the unallocated identity a New would take
FreshEnc(H) == IF H.alloc = EncId THEN {}
               ELSE {CHOOSE e \in EncId \ H.alloc : \A o \in EncId \ H.alloc : e <= o}

\* what textPool.Get() may return: a pooled object, or the result of New
GetChoices(H) == {e \in EncId : H.pool[e] > 0} \cup FreshEnc(H)

Get(H, e) ==
    IF H.pool[e] > 0 THEN [H EXCEPT !.pool[e] = @ - 1]
    ELSE [H EXCEPT !.alloc = @ \cup {e}, !.enc[e] = NewEncoder(e), !.mem[e] = <<>>]

\* textPool.Put(enc)
Put(H, e) == [H EXCEPT !.pool[e] = @ + 1]

\* ------------------------------------------------------------------ state
Goroutines == {1, 2}
Sinks == {"Output", "ErrorOutput"}
Running == "running"
Exit1 == "exit(1)"
Panicked == "panic"

VARIABLES
    dlogger,    \* the Meta of the package's logger: lvl and Encoder
    heap,       \* the encoders, their backing arrays, and textPool
    pc,         \* where each goroutine is
    loc,        \* each goroutine's locals
    lws,        \* the mutex of each lockedWriteSyncer
    sink,       \* what each wrapped sink has taken
    exitCode,   \* Running, or the status the process ended with
    ncalls,     \* log calls started
    obs,        \* per call: what the call has done so far
    wlog,       \* per sink, the Write calls it has seen of late
    client,     \* a caller of the exported API: its encoders, its Metas, its last call
    proc        \* the package's Init and Close: file, ticker, sync goroutines

vars == <<dlogger, heap, pc, loc, lws, sink, exitCode, ncalls, obs, wlog, client, proc>>

Loc0 == [lvl |-> 0, msg |-> <<>>, fields |-> <<>>, thr |-> 0, temp |-> NoEnc,
         final |-> NoEnc, expected |-> 0, n |-> 0, err |-> Nil, res |-> Nil,
         ws |-> "", op |-> "", buf |-> [arr |-> NoEnc, len |-> 0, data |-> <<>>],
         ret |-> [n |-> 0, err |-> Nil], retpc |-> ""]

Obs0 == [gets |-> 0, writes |-> 0, wdone |-> 0, freeFinal |-> 0, freeTemp |-> 0,
         ewrites |-> 0, esyncs |-> 0, merr |-> Nil, line |-> <<>>]

Heap0 == [enc |-> [e \in EncId |-> NewEncoder(e)],
          mem |-> [e \in EncId |-> <<>>],
          pool |-> [e \in EncId |-> 0],
          alloc |-> {}]

NoMeta == [lvl |-> 0, Encoder |-> NoEnc]
NoLevel == [set |-> FALSE, v |-> 0]
Last0 == [op |-> "none", e |-> NoEnc]
\* what a client's encoder would hold had every object the pool handed out
\* been a new one: bytes, flag and layout
Ref0 == [bytes |-> <<>>, firstNested |-> FALSE, timeFmt |-> NoTimeFmt]

\* Init(filepath) has not been called: no file, syncFile and syncTicker nil,
\* no sync goroutine.  Files, goroutines and tickers are numbered by the call
\* of Init that made them.
Inits == 1..MaxInits
NoFile == 0
NoTicker == 0
Ticker0 == [made |-> FALSE, stopped |-> FALSE, pending |-> 0]
Proc0 == [main |-> "start", inits |-> 0, initErr |-> Nil,
          syncFile |-> NoFile, syncTicker |-> NoTicker, tickerVals |-> {NoTicker},
          out |-> NoFile,
          file |-> [i \in Inits |-> "none"],
          bg |-> [i \in Inits |-> "none"],
          ticker |-> [i \in Inits |-> Ticker0]]

Client0 == [own |-> {}, root |-> NoMeta, derived |-> NoMeta, lastSet |-> NoLevel,
            last |-> Last0, nops |-> 0, ref |-> [e \in EncId |-> Ref0]]

\* NewTextEncoder(options...): Get, truncate, RFC3339, then the options
NewTextEncoder(H, e, layouts) ==
    LET H1 == truncate(Get(H, e), e)
    IN [H1 EXCEPT !.enc[e].timeFmt =
            IF layouts = <<>> THEN RFC3339 ELSE layouts[Len(layouts)]]

\* MakeMeta(enc)
MakeMeta(e) == [lvl |-> InfoLevel, Encoder |-> e]

\* the state Init(filepath) leaves when it returns nil
Init ==
    /\ dlogger = MakeMeta(1)
    /\ heap = NewTextEncoder(Heap0, 1, <<>>)
    /\ pc = [g \in Goroutines |-> "idle"]
    /\ loc = [g \in Goroutines |-> Loc0]
    /\ lws = [w \in Sinks |-> FALSE]
    /\ sink = [w \in Sinks |-> [stream |-> <<>>, synced |-> TRUE]]
    /\ exitCode = Running
    /\ ncalls = 0
    /\ obs = [g \in Goroutines |-> Obs0]
    /\ wlog = [w \in Sinks |-> <<>>]
    /\ client = Client0
    /\ proc = Proc0

\* ------------------------------------------------------------- level gate
\* Meta.Level(): the atomic load of m.lvl
Level(m) == m.lvl

\* a gate that also stops a call at the threshold itself
EnabledStrict(l, thr) == l > thr

\* the test at the head of log: the call goes on iff lvl >= log.Level()
Enabled(l, thr) == l >= thr

\* ------------------------------------------------------- the log call path
Alive == exitCode = Running

\* the bytes the sink sees through the slice it was handed
View(g) ==
    IF loc[g].buf.arr # NoEnc THEN SliceBytes(heap, loc[g].buf.arr, loc[g].buf.len)
    ELSE loc[g].buf.data

\* Debug, Info, Warn, Error, Panic, Fatal: the call of dlogger.log, and its
\* first statement, if !(lvl >= log.Level()) { return }
LogCall(g, l, msg, fields) ==
    /\ Alive /\ pc[g] = "idle" /\ ncalls < MaxCalls
    /\ ncalls' = ncalls + 1
    /\ pc' = [pc EXCEPT ![g] = IF Enabled(l, Level(dlogger)) THEN "clone" ELSE "logret"]
    /\ loc' = [loc EXCEPT ![g] = [Loc0 EXCEPT !.lvl = l, !.msg = msg, !.fields = fields,
                                              !.thr = Level(dlogger)]]
    /\ obs' = [obs EXCEPT ![g] = Obs0]
    /\ UNCHANGED <<dlogger, heap, lws, sink, exitCode, wlog, client, proc>>

\* a log that adds the fields of the call to the logger's own encoder
CloneStepInPlace(g, c) ==
    /\ Alive /\ pc[g] = "clone"
    /\ c \in GetChoices(heap)
    /\ \E r \in {addFields(Buf(heap, dlogger.Encoder), loc[g].fields)} :
          /\ heap' = Store(heap, dlogger.Encoder, r.B)
          /\ obs' = [obs EXCEPT ![g].merr = r.err]
    /\ loc' = [loc EXCEPT ![g].temp = dlogger.Encoder]
    /\ pc' = [pc EXCEPT ![g] = "we_get"]
    /\ UNCHANGED <<dlogger, lws, sink, exitCode, ncalls, wlog, client, proc>>

\* log: temp := log.Encoder.Clone(); addFields(temp, fields)
CloneStep(g, c) ==
    /\ Alive /\ pc[g] = "clone"
    /\ c \in GetChoices(heap)
    /\ \E G \in {Get(heap, c)} :
       \E H \in {CloneInto(G, dlogger.Encoder, c)} :
       \E r \in {addFields(Buf(H, c), loc[g].fields)} :
          /\ heap' = Store(H, c, r.B)
          /\ obs' = [obs EXCEPT ![g].gets = @ + 1, ![g].merr = r.err]
    /\ loc' = [loc EXCEPT ![g].temp = c]
    /\ pc' = [pc EXCEPT ![g] = "we_get"]
    /\ UNCHANGED <<dlogger, lws, sink, exitCode, ncalls, wlog, client, proc>>

\* WriteEntry: final from the pool, the line assembled, sink.Write called
WriteEntryGet(g, f, caller, line, t) ==
    /\ Alive /\ pc[g] = "we_get"
    /\ f \in GetChoices(heap)
    /\ \E G \in {Get(heap, f)} :
       \E H \in {WriteEntryAssemble(G, loc[g].temp, f, caller, line,
                                    loc[g].msg, loc[g].lvl, t)} :
          /\ heap' = H
          /\ loc' = [loc EXCEPT ![g].final = f,
                                ![g].expected = H.enc[f].len,
                                ![g].ws = "Output",
                                ![g].op = "Write",
                                ![g].buf = [arr |-> H.enc[f].arr, len |-> H.enc[f].len,
                                            data |-> <<>>],
                                ![g].retpc = "we_free"]
          /\ obs' = [obs EXCEPT ![g].gets = @ + 1, ![g].writes = @ + 1,
                                ![g].line = Bytes(H, f)]
    /\ pc' = [pc EXCEPT ![g] = "lock"]
    /\ UNCHANGED <<dlogger, lws, sink, exitCode, ncalls, wlog, client, proc>>

\* ------------------------------------------------------ lockedWriteSyncer
\* a Lock that does not wait
LockNoWait(g) ==
    /\ Alive /\ pc[g] = "lock"
    /\ lws' = [lws EXCEPT ![loc[g].ws] = TRUE]
    /\ pc' = [pc EXCEPT ![g] = IF loc[g].op = "Write" THEN "ws_write" ELSE "ws_sync"]
    /\ UNCHANGED <<dlogger, heap, loc, sink, exitCode, ncalls, obs, wlog, client, proc>>

\* s.Lock()
Lock(g) ==
    /\ Alive /\ pc[g] = "lock"
    /\ ~lws[loc[g].ws]
    /\ lws' = [lws EXCEPT ![loc[g].ws] = TRUE]
    /\ pc' = [pc EXCEPT ![g] = IF loc[g].op = "Write" THEN "ws_write" ELSE "ws_sync"]
    /\ UNCHANGED <<dlogger, heap, loc, sink, exitCode, ncalls, obs, wlog, client, proc>>

\* the outcomes (n, err) the wrapped sink may report for len bytes
WriteOutcomes(len) ==
    {[n |-> len, err |-> Nil], [n |-> len - 1, err |-> Nil], [n |-> 0, err |-> ErrSink]}

\* whether another goroutine is in the middle of a Write of sink w
Busy(w, g) ==
    \E o \in Goroutines :
        /\ o # g /\ loc[o].ws = w
        /\ pc[o] \in {"lock", "ws_write", "ws_write2", "ws_sync", "unlock"}

\* s.ws.Write(bs), first part: the sink decides on (n, err) and takes the
\* first half of the n bytes.  sink[w].stream holds what the sink took of
\* late, wlog[w] the calls that brought it: by the time a third call begins,
\* what the first brought is on the sink's medium and out of reach.
WsWriteBegin(g, o) ==
    /\ Alive /\ pc[g] = "ws_write"
    /\ o \in WriteOutcomes(loc[g].buf.len)
    /\ LET w == loc[g].ws
           k == o.n \div 2
           entry == [g |-> g, line |-> View(g), taken |-> k, open |-> TRUE]
           old == Len(wlog[w]) >= 2 /\ ~wlog[w][1].open
           gone == IF old THEN wlog[w][1].taken ELSE 0
       IN /\ sink' = [sink EXCEPT ![w].stream = SubSeq(@, gone + 1, Len(@))
                                                  \o SubSeq(View(g), 1, k),
                                  ![w].synced = FALSE]
          /\ wlog' = [wlog EXCEPT ![w] = Append(IF old THEN Tail(@) ELSE @, entry)]
    /\ loc' = [loc EXCEPT ![g].ret = [n |-> o.n, err |-> o.err]]
    /\ pc' = [pc EXCEPT ![g] = "ws_write2"]
    /\ UNCHANGED <<dlogger, heap, lws, exitCode, ncalls, obs, client, proc>>

\* s.ws.Write(bs), second part: the sink takes the rest and returns
WsWriteEnd(g) ==
    /\ Alive /\ pc[g] = "ws_write2"
    /\ LET w == loc[g].ws
           k == loc[g].ret.n \div 2
       IN /\ sink' = [sink EXCEPT ![w].stream = @ \o SubSeq(View(g), k + 1, loc[g].ret.n)]
          /\ wlog' = [wlog EXCEPT ![w] =
                        [i \in DOMAIN @ |->
                            IF @[i].g = g /\ @[i].open
                            THEN [@[i] EXCEPT !.taken = loc[g].ret.n, !.open = FALSE]
                            ELSE @[i]]]
          /\ obs' = IF w = "Output" THEN [obs EXCEPT ![g].wdone = @ + 1]
                    ELSE [obs EXCEPT ![g].ewrites = @ + 1]
    /\ pc' = [pc EXCEPT ![g] = "unlock"]
    /\ UNCHANGED <<dlogger, heap, loc, lws, exitCode, ncalls, client, proc>>

\* s.ws.Sync()
WsSync(g, err) ==
    /\ Alive /\ pc[g] = "ws_sync"
    /\ sink' = [sink EXCEPT ![loc[g].ws].synced = TRUE]
    /\ loc' = [loc EXCEPT ![g].ret = [n |-> 0, err |-> err]]
    /\ obs' = [obs EXCEPT ![g].esyncs = @ + 1]
    /\ pc' = [pc EXCEPT ![g] = "unlock"]
    /\ UNCHANGED <<dlogger, heap, lws, exitCode, ncalls, wlog, client, proc>>

\* a Write or Sync that returns on an error of the wrapped call without
\* unlocking
UnlockUnlessErr(g) ==
    /\ Alive /\ pc[g] = "unlock"
    /\ lws' = [lws EXCEPT ![loc[g].ws] = (loc[g].ret.err # Nil)]
    /\ pc' = [pc EXCEPT ![g] = loc[g].retpc]
    /\ IF Busy(loc[g].ws, g)
       THEN UNCHANGED <<sink, wlog>>
       ELSE /\ sink' = [sink EXCEPT ![loc[g].ws].stream = <<>>]
            /\ wlog' = [wlog EXCEPT ![loc[g].ws] = <<>>]
    /\ UNCHANGED <<dlogger, heap, loc, exitCode, ncalls, obs, client, proc>>

\* s.Unlock(); return.  A sink that nobody else is calling or waiting for
\* has put what it took on its medium.
Unlock(g) ==
    /\ Alive /\ pc[g] = "unlock"
    /\ lws' = [lws EXCEPT ![loc[g].ws] = FALSE]
    /\ pc' = [pc EXCEPT ![g] = loc[g].retpc]
    /\ IF Busy(loc[g].ws, g)
       THEN UNCHANGED <<sink, wlog>>
       ELSE /\ sink' = [sink EXCEPT ![loc[g].ws].stream = <<>>]
            /\ wlog' = [wlog EXCEPT ![loc[g].ws] = <<>>]
    /\ UNCHANGED <<dlogger, heap, loc, exitCode, ncalls, obs, client, proc>>

\* a WriteEntry that returns the error of a failed self-description first
EntryErrorMarshalFirst(g) ==
    IF obs[g].merr # Nil THEN obs[g].merr
    ELSE WriteEntryResult(loc[g].ret.n, loc[g].ret.err, loc[g].expected)

\* the error WriteEntry returns to log, from n, err := sink.Write(final.bytes)
EntryError(g) == WriteEntryResult(loc[g].ret.n, loc[g].ret.err, loc[g].expected)

\* a WriteEntry that frees its receiver along with final
WriteEntryFreeBoth(g) ==
    /\ Alive /\ pc[g] = "we_free"
    /\ heap' = Put(Put(heap, loc[g].final), loc[g].temp)
    /\ obs' = [obs EXCEPT ![g].freeFinal = @ + 1]
    /\ LET res == EntryError(g)
       IN IF res # Nil
          THEN /\ loc' = [loc EXCEPT ![g].n = loc[g].ret.n,
                                     ![g].err = loc[g].ret.err,
                                     ![g].res = res,
                                     ![g].ws = "ErrorOutput",
                                     ![g].op = "Write",
                                     ![g].buf = [arr |-> NoEnc,
                                                 len |-> Len(ErrorText(res)) + 1,
                                                 data |-> ErrorText(res) \o <<"\n">>],
                                     ![g].retpc = "ie_sync"]
               /\ pc' = [pc EXCEPT ![g] = "lock"]
          ELSE /\ loc' = [loc EXCEPT ![g].n = loc[g].ret.n,
                                     ![g].err = loc[g].ret.err,
                                     ![g].res = res]
               /\ pc' = [pc EXCEPT ![g] = "free_temp"]
    /\ UNCHANGED <<dlogger, lws, sink, exitCode, ncalls, wlog, client, proc>>

\* a WriteEntry that returns the sink's error before it has freed final
WriteEntryFreeOnSuccess(g) ==
    /\ Alive /\ pc[g] = "we_free"
    /\ heap' = IF loc[g].ret.err = Nil THEN Put(heap, loc[g].final) ELSE heap
    /\ obs' = [obs EXCEPT ![g].freeFinal = @ + (IF loc[g].ret.err = Nil THEN 1 ELSE 0)]
    /\ LET res == EntryError(g)
       IN IF res # Nil
          THEN /\ loc' = [loc EXCEPT ![g].n = loc[g].ret.n,
                                     ![g].err = loc[g].ret.err,
                                     ![g].res = res,
                                     ![g].ws = "ErrorOutput",
                                     ![g].op = "Write",
                                     ![g].buf = [arr |-> NoEnc,
                                                 len |-> Len(ErrorText(res)) + 1,
                                                 data |-> ErrorText(res) \o <<"\n">>],
                                     ![g].retpc = "ie_sync"]
               /\ pc' = [pc EXCEPT ![g] = "lock"]
          ELSE /\ loc' = [loc EXCEPT ![g].n = loc[g].ret.n,
                                     ![g].err = loc[g].ret.err,
                                     ![g].res = res]
               /\ pc' = [pc EXCEPT ![g] = "free_temp"]
    /\ UNCHANGED <<dlogger, lws, sink, exitCode, ncalls, wlog, client, proc>>

\* WriteEntry after sink.Write returned: n, err := ..., final.Free(), then the
\* result; and back in log: if err != nil { log.internalError(err.Error()) },
\* whose first statement is fmt.Fprintln(log.ErrorOutput, msg)
WriteEntryFree(g) ==
    /\ Alive /\ pc[g] = "we_free"
    /\ heap' = Put(heap, loc[g].final)
    /\ obs' = [obs EXCEPT ![g].freeFinal = @ + 1]
    /\ LET res == EntryError(g)
       IN IF res # Nil
          THEN /\ loc' = [loc EXCEPT ![g].n = loc[g].ret.n,
                                     ![g].err = loc[g].ret.err,
                                     ![g].res = res,
                                     ![g].ws = "ErrorOutput",
                                     ![g].op = "Write",
                                     ![g].buf = [arr |-> NoEnc,
                                                 len |-> Len(ErrorText(res)) + 1,
                                                 data |-> ErrorText(res) \o <<"\n">>],
                                     ![g].retpc = "ie_sync"]
               /\ pc' = [pc EXCEPT ![g] = "lock"]
          ELSE /\ loc' = [loc EXCEPT ![g].n = loc[g].ret.n,
                                     ![g].err = loc[g].ret.err,
                                     ![g].res = res]
               /\ pc' = [pc EXCEPT ![g] = "free_temp"]
    /\ UNCHANGED <<dlogger, lws, sink, exitCode, ncalls, wlog, client, proc>>

\* an internalError that does not sync
InternalErrorNoSync(g) ==
    /\ Alive /\ pc[g] = "ie_sync"
    /\ pc' = [pc EXCEPT ![g] = "free_temp"]
    /\ UNCHANGED <<dlogger, heap, loc, lws, sink, exitCode, ncalls, obs, wlog, client, proc>>

\* internalError: log.ErrorOutput.Sync()
InternalErrorSync(g) ==
    /\ Alive /\ pc[g] = "ie_sync"
    /\ loc' = [loc EXCEPT ![g].ws = "ErrorOutput", ![g].op = "Sync",
                          ![g].retpc = "free_temp"]
    /\ pc' = [pc EXCEPT ![g] = "lock"]
    /\ UNCHANGED <<dlogger, heap, lws, sink, exitCode, ncalls, obs, wlog, client, proc>>

\* log: temp.Free()
FreeTemp(g) ==
    /\ Alive /\ pc[g] = "free_temp"
    /\ heap' = Put(heap, loc[g].temp)
    /\ obs' = [obs EXCEPT ![g].freeTemp = @ + 1]
    /\ pc' = [pc EXCEPT ![g] = "logret"]
    /\ UNCHANGED <<dlogger, loc, lws, sink, exitCode, ncalls, wlog, client, proc>>

\* a Fatal that returns to its caller
ReturnNoExit(g) ==
    /\ Alive /\ pc[g] = "logret"
    /\ pc' = [pc EXCEPT ![g] = IF loc[g].lvl = PanicLevel THEN "panic" ELSE "idle"]
    /\ loc' = [loc EXCEPT ![g] = IF loc[g].lvl = PanicLevel THEN @ ELSE Loc0]
    /\ obs' = [obs EXCEPT ![g] = IF loc[g].lvl = PanicLevel THEN @ ELSE Obs0]
    /\ UNCHANGED <<dlogger, heap, lws, sink, exitCode, ncalls, wlog, client, proc>>

\* log has returned: Fatal calls _exit(1), Panic panics, the others return
Return(g) ==
    /\ Alive /\ pc[g] = "logret"
    /\ IF loc[g].lvl = FatalLevel
       THEN /\ exitCode' = Exit1
            /\ pc' = [pc EXCEPT ![g] = "exited"]
            /\ UNCHANGED <<loc, obs>>
       ELSE IF loc[g].lvl = PanicLevel
       THEN /\ pc' = [pc EXCEPT ![g] = "panic"]
            /\ UNCHANGED <<exitCode, loc, obs>>
       ELSE /\ pc' = [pc EXCEPT ![g] = "idle"]
            /\ loc' = [loc EXCEPT ![g] = Loc0]
            /\ obs' = [obs EXCEPT ![g] = Obs0]
            /\ UNCHANGED exitCode
    /\ UNCHANGED <<dlogger, heap, lws, sink, ncalls, wlog, client, proc>>

\* panic(msg) unwinds into the caller: recovered there, or the process dies
PanicUnwind(g, recovered) ==
    /\ Alive /\ pc[g] = "panic"
    /\ IF recovered
       THEN /\ pc' = [pc EXCEPT ![g] = "idle"]
            /\ loc' = [loc EXCEPT ![g] = Loc0]
            /\ obs' = [obs EXCEPT ![g] = Obs0]
            /\ UNCHANGED exitCode
       ELSE /\ pc' = [pc EXCEPT ![g] = "crashed"]
            /\ exitCode' = Panicked
            /\ UNCHANGED <<loc, obs>>
    /\ UNCHANGED <<dlogger, heap, lws, sink, ncalls, wlog, client, proc>>

\* ---------------------------------------------------------------- inputs
FString == [kind |-> "String", key |-> <<"k">>, val |-> <<"v">>]
FInt == [kind |-> "Int", key |-> <<"p">>, val |-> 100]
FBad == [kind |-> "Marshaler", key |-> <<"o">>,
         obj |-> [fields |-> <<FString>>, err |-> ErrMarshal, panics |-> FALSE]]
Msgs == {<<"m">>}
Callers == {<<"f">>}
Lines == {42}
Times == {1}

\* a call shape: the level of the function called, and its fields
Shape(l, fs) == [lvl |-> l, fields |-> fs]

\* Two goroutines log concurrently.
ConcShapes == {Shape(DebugLevel, <<>>), Shape(InfoLevel, <<>>), Shape(ErrorLevel, <<FString>>)}

ConcOutcomes(len) == {[n |-> len, err |-> Nil], [n |-> 0, err |-> ErrSink]}

Next ==
    \/ \E g \in Goroutines, c \in ConcShapes, m \in Msgs : LogCall(g, c.lvl, m, c.fields)
    \/ \E g \in Goroutines, c \in EncId : CloneStep(g, c)
    \/ \E g \in Goroutines, f \in EncId, c \in Callers, n \in Lines, t \in Times :
          WriteEntryGet(g, f, c, n, t)
    \/ \E g \in Goroutines : Lock(g)
    \/ \E g \in Goroutines : \E o \in ConcOutcomes(loc[g].buf.len) : WsWriteBegin(g, o)
    \/ \E g \in Goroutines : WsWriteEnd(g)
    \/ \E g \in Goroutines : WsSync(g, Nil)
    \/ \E g \in Goroutines : Unlock(g)
    \/ \E g \in Goroutines : WriteEntryFree(g)
    \/ \E g \in Goroutines : InternalErrorSync(g)
    \/ \E g \in Goroutines : FreeTemp(g)
    \/ \E g \in Goroutines : Return(g)

Spec == Init /\ [][Next]_vars

\* One goroutine logs, with every level, a failing marshaler and every sink outcome.
SeqShapes == {Shape(l, <<>>) : l \in StdLevels}
             \cup {Shape(InfoLevel, <<FString, FInt>>), Shape(WarnLevel, <<FBad>>),
                   Shape(FatalLevel, <<FBad, FString>>)}

SeqNext ==
    \/ \E c \in SeqShapes, m \in Msgs : LogCall(1, c.lvl, m, c.fields)
    \/ \E c \in EncId : CloneStep(1, c)
    \/ \E f \in EncId, c \in Callers, n \in Lines, t \in Times : WriteEntryGet(1, f, c, n, t)
    \/ Lock(1)
    \/ \E o \in WriteOutcomes(loc[1].buf.len) : WsWriteBegin(1, o)
    \/ WsWriteEnd(1)
    \/ \E err \in {Nil, ErrSink} : WsSync(1, err)
    \/ Unlock(1)
    \/ WriteEntryFree(1)
    \/ InternalErrorSync(1)
    \/ FreeTemp(1)
    \/ Return(1)
    \/ \E r \in BOOLEAN : PanicUnwind(1, r)

\* a goroutine that can step does step, and its sinks return
SeqSpec == Init /\ [][SeqNext]_vars /\ WF_vars(SeqNext)

\* --------------------------------------- callers of one lockedWriteSyncer
\* a goroutine calls Write(bs) or Sync() on the lockedWriteSyncer w
SinkCall(g, w, op, data) ==
    /\ Alive /\ pc[g] = "idle"
    /\ loc' = [loc EXCEPT ![g] = [Loc0 EXCEPT !.ws = w, !.op = op,
                                              !.buf = [arr |-> NoEnc, len |-> Len(data),
                                                       data |-> data],
                                              !.retpc = "called"]]
    /\ obs' = [obs EXCEPT ![g] = Obs0]
    /\ pc' = [pc EXCEPT ![g] = "lock"]
    /\ UNCHANGED <<dlogger, heap, lws, sink, exitCode, ncalls, wlog, client, proc>>

\* the call has returned to the goroutine
SinkReturn(g) ==
    /\ Alive /\ pc[g] = "called"
    /\ loc' = [loc EXCEPT ![g] = Loc0]
    /\ obs' = [obs EXCEPT ![g] = Obs0]
    /\ pc' = [pc EXCEPT ![g] = "idle"]
    /\ UNCHANGED <<dlogger, heap, lws, sink, exitCode, ncalls, wlog, client, proc>>

Workers == {1, 2}
LwsData == {<<"a", "b">>, <<"c", "d", "e">>}

LwsNext ==
    \/ \E g \in Workers, d \in LwsData : SinkCall(g, "Output", "Write", d)
    \/ \E g \in Workers : SinkCall(g, "Output", "Sync", <<>>)
    \/ \E g \in Workers : Lock(g)
    \/ \E g \in Workers : \E o \in WriteOutcomes(loc[g].buf.len) : WsWriteBegin(g, o)
    \/ \E g \in Workers : WsWriteEnd(g)
    \/ \E g \in Workers, err \in {Nil, ErrSink} : WsSync(g, err)
    \/ \E g \in Workers : Unlock(g)
    \/ \E g \in Workers : SinkReturn(g)

\* What the scheduler and sync.Mutex give a goroutine: a goroutine that can
\* step does step, and one that waits for a mutex that is freed again and
\* again does get it (the mutex hands over to a starving waiter).
LwsFair(g) ==
    /\ SF_vars(Lock(g))
    /\ WF_vars(\E o \in WriteOutcomes(loc[g].buf.len) : WsWriteBegin(g, o))
    /\ WF_vars(WsWriteEnd(g))
    /\ WF_vars(\E err \in {Nil, ErrSink} : WsSync(g, err))
    /\ WF_vars(Unlock(g))
    /\ WF_vars(SinkReturn(g))

LwsSpec == Init /\ [][LwsNext]_vars /\ \A g \in Workers : LwsFair(g)

\* ------------------------------------------- a caller of the exported API
\* Meta.SetLevel(lvl): the receiver is a copy of the caller's Meta and lvl is
\* an int32 field of it, so the store lands in the copy; the result is the
\* caller's Meta after the call
SetLevel(m, v) ==
    LET receiver == [m EXCEPT !.lvl = v]
    IN IF receiver = m THEN receiver ELSE m

\* Meta.Clone(): the copy with its Encoder replaced by the clone c
MetaClone(m, c) == [m EXCEPT !.Encoder = c]

CanOp == Alive /\ client.nops < MaxOps

\* the heap H with object e as textPool's New makes it
FreshAt(H, e) ==
    [H EXCEPT !.enc[e] = NewEncoder(e), !.mem[e] = <<>>, !.pool[e] = 0,
              !.alloc = @ \ {e}]

\* the heap H with encoder e holding r
Twin(H, e, r) == [Store(H, e, r) EXCEPT !.enc[e].timeFmt = r.timeFmt]

RefOf(H, e) == [bytes |-> Bytes(H, e), firstNested |-> H.enc[e].firstNested,
                timeFmt |-> H.enc[e].timeFmt]

LogPathVars == <<dlogger, pc, loc, lws, sink, exitCode, ncalls, obs, wlog, proc>>

\* enc := NewTextEncoder(options...)
ClNew(e, layouts) ==
    /\ CanOp /\ e \in GetChoices(heap)
    /\ heap' = NewTextEncoder(heap, e, layouts)
    /\ client' = [client EXCEPT !.own = @ \cup {e}, !.nops = @ + 1,
                                !.last = [op |-> "New", e |-> e],
                                !.ref[e] = RefOf(NewTextEncoder(FreshAt(heap, e), e, layouts), e)]
    /\ UNCHANGED LogPathVars

\* field.AddTo(enc)
ClAdd(e, f) ==
    /\ CanOp /\ e \in client.own
    /\ LET r == AddTo(Buf(heap, e), f)
           q == AddTo(client.ref[e], f)
       IN /\ heap' = Store(heap, e, r.B)
          /\ client' = [client EXCEPT !.nops = @ + 1,
                                      !.last = [op |-> "Add", e |-> e, f |-> f, err |-> r.err,
                                                stale |-> heap.enc[e].firstNested
                                                            /\ ~client.ref[e].firstNested],
                                      !.ref[e] = [bytes |-> q.B.bytes,
                                                  firstNested |-> q.B.firstNested,
                                                  timeFmt |-> client.ref[e].timeFmt]]
    /\ UNCHANGED LogPathVars

\* defer enc.Free(); field.AddTo(enc), with a callback that panics: the
\* deferred Free runs while the panic unwinds, and the client recovers
ClAddDeferFree(e, f) ==
    /\ CanOp /\ e \in client.own /\ e \notin {client.root.Encoder, client.derived.Encoder}
    /\ LET r == AddTo(Buf(heap, e), f)
       IN /\ r.err = Unwound
          /\ heap' = Put(Store(heap, e, r.B), e)
          /\ client' = [client EXCEPT !.own = @ \ {e}, !.nops = @ + 1,
                                      !.last = [op |-> "AddDeferFree", e |-> e, f |-> f,
                                                err |-> r.err],
                                      !.ref[e] = Ref0]
    /\ UNCHANGED LogPathVars

\* c := enc.Clone()
ClClone(e, c) ==
    /\ CanOp /\ e \in client.own /\ c \in GetChoices(heap)
    /\ heap' = CloneInto(Get(heap, c), e, c)
    /\ client' = [client EXCEPT !.own = @ \cup {c}, !.nops = @ + 1,
                                !.last = [op |-> "Clone", e |-> e, c |-> c],
                                !.ref[c] = RefOf(CloneInto(Get(FreshAt(Twin(heap, e, client.ref[e]), c), c),
                                                           e, c), c)]
    /\ UNCHANGED LogPathVars

\* enc.Free()
ClFree(e) ==
    /\ CanOp /\ e \in client.own /\ e \notin {client.root.Encoder, client.derived.Encoder}
    /\ heap' = Put(heap, e)
    /\ client' = [client EXCEPT !.own = @ \ {e}, !.nops = @ + 1,
                                !.last = [op |-> "Free", e |-> e],
                                !.ref[e] = Ref0]
    /\ UNCHANGED LogPathVars

\* the outcomes (n, err) a sink may report for len bytes: 0 <= n <= len
NChoices(len) == {0, len \div 2, len - 1, len}
ClOutcomes(len) == [n : NChoices(len), err : {Nil, ErrSink}]

\* err := enc.WriteEntry(sink, caller, line, msg, lvl, t), on a sink of the
\* caller's that reports (o.n, o.err)
ClWriteEntry(e, f, caller, line, msg, l, t) ==
    /\ CanOp /\ e \in client.own /\ f \in GetChoices(heap)
    /\ LET H == WriteEntryAssemble(Get(heap, f), e, f, caller, line, msg, l, t)
           T == WriteEntryAssemble(Get(FreshAt(Twin(heap, e, client.ref[e]), f), f),
                                   e, f, caller, line, msg, l, t)
           expectedBytes == H.enc[f].len
       IN /\ heap' = Put(H, f)
          /\ \E o \in ClOutcomes(expectedBytes) : client' = [client EXCEPT
                  !.nops = @ + 1,
                  !.last = [op |-> "WriteEntry", e |-> e, final |-> f,
                            caller |-> caller, lno |-> line, msg |-> msg,
                            lvl |-> l, t |-> t,
                            line |-> Bytes(H, f), refline |-> Bytes(T, f),
                            n |-> o.n, err |-> o.err,
                            res |-> WriteEntryResult(o.n, o.err, expectedBytes)]]
    /\ UNCHANGED LogPathVars

\* m := MakeMeta(enc)
ClMakeMeta(e) ==
    /\ CanOp /\ e \in client.own /\ client.root = NoMeta
    /\ client' = [client EXCEPT !.root = MakeMeta(e), !.nops = @ + 1,
                                !.last = [op |-> "MakeMeta", e |-> e]]
    /\ UNCHANGED <<heap, LogPathVars>>

\* d := m.Clone()
ClMetaClone(c) ==
    /\ CanOp /\ client.root # NoMeta /\ c \in GetChoices(heap)
    /\ heap' = CloneInto(Get(heap, c), client.root.Encoder, c)
    /\ client' = [client EXCEPT !.derived = MetaClone(client.root, c),
                                !.own = @ \cup {c}, !.nops = @ + 1,
                                !.last = [op |-> "MetaClone", e |-> c],
                                !.ref[c] = client.ref[client.root.Encoder]]
    /\ UNCHANGED LogPathVars

\* m.SetLevel(v), or d.SetLevel(v)
ClSetLevel(which, v) ==
    /\ CanOp
    /\ IF which = "root"
       THEN /\ client.root # NoMeta
            /\ client' = [client EXCEPT !.root = SetLevel(@, v), !.lastSet = [set |-> TRUE, v |-> v],
                                        !.nops = @ + 1,
                                        !.last = [op |-> "SetLevel", e |-> NoEnc]]
       ELSE /\ client.derived # NoMeta
            /\ client' = [client EXCEPT !.derived = SetLevel(@, v), !.lastSet = [set |-> TRUE, v |-> v],
                                        !.nops = @ + 1,
                                        !.last = [op |-> "SetLevel", e |-> NoEnc]]
    /\ UNCHANGED <<heap, LogPathVars>>

Layouts == {<<>>, <<NoTimeFmt>>, <<"C">>}
ClFields == {FString, FInt, FBad}
ClLevels == {InfoLevel, 7}


EncNext ==
    \/ \E e \in EncId, ls \in Layouts : ClNew(e, ls)
    \/ \E e \in EncId, f \in ClFields : ClAdd(e, f)
    \/ \E e \in EncId, c \in EncId : ClClone(e, c)
    \/ \E e \in EncId : ClFree(e)
    \/ \E e \in EncId, f \in EncId, c \in Callers, n \in Lines, m \in Msgs,
          l \in ClLevels, t \in Times :
          ClWriteEntry(e, f, c, n, m, l, t)

EncSpec == Init /\ [][EncNext]_vars

MetaNext ==
    \/ \E e \in EncId, ls \in Layouts : ClNew(e, ls)
    \/ \E e \in EncId : ClAdd(e, FString)
    \/ \E e \in EncId : ClMakeMeta(e)
    \/ \E c \in EncId : ClMetaClone(c)
    \/ \E w \in {"root", "derived"}, v \in StdLevels : ClSetLevel(w, v)

MetaSpec == Init /\ [][MetaNext]_vars

\* A client adds fields to encoders it got empty from NewTextEncoder.
FObject == [kind |-> "Object", key |-> <<"j">>, obj |-> [t |-> "int", v |-> 7]]
FBool == [kind |-> "Bool", key |-> <<"b">>, val |-> TRUE]
\* self-describing objects: what the callback adds, and what it returns
FNone == [kind |-> "Marshaler", key |-> <<"e">>,
          obj |-> [fields |-> <<>>, err |-> Nil, panics |-> FALSE]]
FTwo == [kind |-> "Marshaler", key |-> <<"o">>,
         obj |-> [fields |-> <<FString, FInt>>, err |-> Nil, panics |-> FALSE]]
FNest == [kind |-> "Marshaler", key |-> <<"n">>,
          obj |-> [fields |-> <<FNone, FTwo, FString>>, err |-> Nil, panics |-> FALSE]]
FBadNone == [kind |-> "Marshaler", key |-> <<"x">>,
             obj |-> [fields |-> <<>>, err |-> ErrMarshal, panics |-> FALSE]]
AddFields == {FString, FInt, FBool, FObject, FNone, FTwo, FNest, FBad, FBadNone}

AddNext ==
    \/ \E e \in EncId : ClNew(e, <<>>)
    \/ \E e \in EncId, f \in AddFields : ClAdd(e, f)

AddSpec == Init /\ [][AddNext]_vars

\* A client whose callbacks may panic takes encoders from the pool and gives
\* them back.
FPanic == [kind |-> "Marshaler", key |-> <<"q">>,
           obj |-> [fields |-> <<>>, err |-> Nil, panics |-> TRUE]]
PoolLayouts == {<<>>, <<NoTimeFmt>>}

PoolNext ==
    \/ \E e \in EncId, ls \in PoolLayouts : ClNew(e, ls)
    \/ \E e \in EncId, f \in {FString, FTwo} : ClAdd(e, f)
    \/ \E e \in EncId : ClAddDeferFree(e, FPanic)
    \/ \E e \in EncId, c \in EncId : ClClone(e, c)
    \/ \E e \in EncId : ClFree(e)
    \/ \E e \in EncId, f \in EncId, c \in Callers, n \in Lines, m \in Msgs, t \in Times :
          ClWriteEntry(e, f, c, n, m, InfoLevel, t)

PoolSpec == Init /\ [][PoolNext]_vars

\* ================================================================= claims

\* C1 (as claimed): once SetLevel(v) was called on a Meta, Level() of that
\* Meta and of the Meta derived from it returns v.
C1_SetLevelVisible ==
    client.lastSet.set =>
        /\ client.root # NoMeta => Level(client.root) = client.lastSet.v
        /\ client.derived # NoMeta => Level(client.derived) = client.lastSet.v

\* a log call of goroutine g has come back from log
Returned(g) == pc[g] = "logret"

\* C2: a log call at level L, with T the threshold Level() gave it, makes
\* exactly one Write on Output when L >= T; when L < T it writes nothing,
\* takes no encoder from the pool, and its step changes nothing of the
\* logger, the encoders, the pool, the locks and the sinks.
C2_LevelGate ==
    /\ [](\A g \in Goroutines :
            /\ obs[g].writes <= 1
            /\ Returned(g) =>
                 IF loc[g].lvl >= loc[g].thr
                 THEN obs[g].writes = 1 /\ obs[g].wdone = 1
                 ELSE obs[g].writes = 0 /\ obs[g].gets = 0 /\ obs[g].ewrites = 0)
    /\ [][\A g \in Goroutines :
            (pc[g] = "idle" /\ pc'[g] # "idle" /\ loc'[g].lvl < loc'[g].thr)
                => /\ pc'[g] = "logret"
                   /\ UNCHANGED <<dlogger, heap, lws, sink, exitCode, wlog>>]_vars

\* a call at the threshold itself has written its entry
C2_Witness ==
    \E g \in Goroutines :
        Returned(g) /\ loc[g].lvl = loc[g].thr /\ obs[g].writes = 1 /\ obs[g].wdone = 1

\* goroutine g is between s.Lock() and s.Unlock() of lockedWriteSyncer w
Inside(g, w) ==
    /\ pc[g] \in {"ws_write", "ws_write2", "ws_sync", "unlock"}
    /\ loc[g].ws = w

\* C3: of the goroutines calling Write and Sync on one lockedWriteSyncer, at
\* most one at a time is in the wrapped Write or Sync; the lock is held only
\* while one of them is in there (it is released after every call, also one
\* whose wrapped call reported an error); and every caller waiting for the
\* lock gets through its call.
C3_Serialised ==
    /\ [](\A w \in Sinks :
            /\ Cardinality({g \in Goroutines : Inside(g, w)}) <= 1
            /\ lws[w] <=> \E g \in Goroutines : Inside(g, w))
    /\ \A g \in Workers : (pc[g] = "lock") ~> (pc[g] = "called")

\* a wrapped call has reported an error and is about to unlock, while the
\* other goroutine waits for the lock
C3_Witness ==
    \E g \in Workers, o \in Workers :
        /\ g # o
        /\ pc[g] = "unlock" /\ loc[g].ret.err # Nil
        /\ pc[o] = "lock" /\ loc[o].ws = loc[g].ws

\* what the Output sink has taken in the order it took it, as the calls
\* recorded in wlog account for it
RECURSIVE Taken(_)
Taken(log) ==
    IF log = <<>> THEN <<>>
    ELSE SubSeq(Head(log).line, 1, Head(log).taken) \o Taken(Tail(log))

\* line is one assembled entry: it opens with the level tag and its only
\* line break is its last byte
IsEntry(line) ==
    /\ Len(line) > 0
    /\ line[1] = "["
    /\ line[Len(line)] = "\n"
    /\ \A i \in 1..(Len(line) - 1) : line[i] # "\n"

\* goroutine g is in the sink.Write of WriteEntry
WritingEntry(g) ==
    /\ pc[g] \in {"lock", "ws_write", "ws_write2"}
    /\ loc[g].ws = "Output"

\* C4: every log call hands its entry to Output as one Write of the whole
\* assembled line, and what Output receives from concurrent calls is the
\* sequence of those writes one after the other: the bytes of one call are
\* never interleaved with the bytes of another.
C4_WholeEntries ==
    /\ sink["Output"].stream = Taken(wlog["Output"])
    /\ \A i \in DOMAIN wlog["Output"] :
        /\ IsEntry(wlog["Output"][i].line)
        /\ wlog["Output"][i].open => i = Len(wlog["Output"])
    /\ \A g \in Goroutines :
        /\ obs[g].writes <= 1
        /\ WritingEntry(g) =>
            /\ obs[g].writes = 1
            /\ View(g) = obs[g].line
            /\ loc[g].buf.len = Len(obs[g].line)
            /\ IsEntry(View(g))

\* the sink has taken the entry of one goroutine, which had to wait at the
\* lock while the other was writing, and is in the middle of the entry of
\* the other
C4_Witness ==
    \E g \in Goroutines, o \in Goroutines :
        /\ g # o
        /\ pc[g] = "ws_write2" /\ loc[g].ws = "Output" /\ loc[g].ret.n > 1
        /\ Len(wlog["Output"]) = 2
        /\ wlog["Output"][1].g = o
        /\ wlog["Output"][1].taken = Len(wlog["Output"][1].line)

\* goroutine g has taken temp from the pool and has not freed it yet
HoldsTemp(g) ==
    /\ loc[g].temp # NoEnc
    /\ pc[g] \in {"we_get", "lock", "ws_write", "ws_write2", "ws_sync", "unlock",
                  "we_free", "ie_sync", "free_temp"}

\* goroutine g has taken final from the pool and has not freed it yet
HoldsFinal(g) ==
    /\ loc[g].final # NoEnc
    /\ \/ pc[g] = "we_free"
       \/ pc[g] \in {"lock", "ws_write", "ws_write2", "unlock"} /\ loc[g].ws = "Output"

Held(g) ==
    (IF HoldsTemp(g) THEN {loc[g].temp} ELSE {}) \cup
    (IF HoldsFinal(g) THEN {loc[g].final} ELSE {})

\* C5: an encoder taken from the pool belongs to the one call that took it
\* until that call frees it: it is not in the pool meanwhile, no other call
\* holds it, it is not the logger's own encoder, and the two encoders of one
\* call are different objects; the bytes a sink reads are those of an encoder
\* the writing call still holds; no encoder is in the pool twice.
C5_SingleOwner ==
    /\ \A e \in EncId :
        /\ heap.pool[e] <= 1
        /\ heap.pool[e] > 0 => e \in heap.alloc
    /\ heap.pool[dlogger.Encoder] = 0
    /\ \A g \in Goroutines :
        /\ \A e \in Held(g) :
            /\ e \in heap.alloc
            /\ heap.pool[e] = 0
            /\ e # dlogger.Encoder
        /\ (HoldsTemp(g) /\ HoldsFinal(g)) => loc[g].temp # loc[g].final
        /\ (pc[g] \in {"ws_write", "ws_write2"} /\ loc[g].buf.arr # NoEnc) =>
              /\ HoldsFinal(g)
              /\ loc[g].buf.arr = heap.enc[loc[g].final].arr
    /\ \A g \in Goroutines, o \in Goroutines :
        g # o => Held(g) \cap Held(o) = {}

\* one goroutine holds a clone and a final encoder, one of them the object
\* the other goroutine's call has just freed, while that call still holds
\* its clone
C5_Witness ==
    \E g \in Goroutines, o \in Goroutines :
        /\ g # o
        /\ Cardinality(Held(g)) = 2
        /\ Held(o) = {loc[o].temp}
        /\ loc[o].final \in Held(g)

\* WriteEntry of goroutine g has returned to log
AfterWriteEntry(g) ==
    /\ obs[g].wdone = 1
    /\ pc[g] # "we_free"
    /\ ~(pc[g] = "unlock" /\ loc[g].ws = "Output")

\* C6: a log call that passes the level gate frees its clone exactly once
\* and its final encoder exactly once, whether the write succeeded, fell
\* short or failed: final is freed when WriteEntry returns and not before
\* the write, the clone when log returns, and both are back in the pool then.
C6_FreedOnce ==
    \A g \in Goroutines :
        /\ obs[g].freeFinal <= 1
        /\ obs[g].freeTemp <= 1
        /\ obs[g].freeFinal = (IF AfterWriteEntry(g) THEN 1 ELSE 0)
        /\ HoldsTemp(g) => obs[g].freeTemp = 0
        /\ (Returned(g) /\ loc[g].lvl >= loc[g].thr) =>
            /\ obs[g].freeTemp = 1
            /\ heap.pool[loc[g].temp] = 1
            /\ heap.pool[loc[g].final] = 1

\* a call whose write fell short has come back with both encoders freed
C6_Witness ==
    \E g \in Goroutines :
        /\ Returned(g)
        /\ loc[g].res # Nil /\ loc[g].err = Nil /\ loc[g].n < loc[g].expected
        /\ obs[g].freeFinal = 1 /\ obs[g].freeTemp = 1

\* C7: WriteEntry returns the sink's error when the sink reported one,
\* whatever the count; otherwise the incomplete-write error naming the count
\* and the length when the count differs from the length; and nil only when
\* the sink took the whole entry without error.
C7_WriteResult ==
    client.last.op = "WriteEntry" =>
        /\ client.last.err # Nil => client.last.res = client.last.err
        /\ (client.last.err = Nil /\ client.last.n # Len(client.last.line)) =>
              client.last.res = ErrIncomplete(client.last.n, Len(client.last.line))
        /\ client.last.res = Nil <=>
              (client.last.err = Nil /\ client.last.n = Len(client.last.line))

\* the sink reported an error together with a short count
C7_Witness ==
    /\ client.last.op = "WriteEntry"
    /\ client.last.err # Nil
    /\ client.last.n > 0 /\ client.last.n < Len(client.last.line)
    /\ client.last.res = client.last.err

InFatal(g) == pc[g] \notin {"idle", "exited"} /\ loc[g].lvl = FatalLevel

\* C9: Fatal ends the process with exit code 1, and only after its log
\* attempt is over: the entry was handed to Output, both encoders were freed
\* and, when the write failed, the error was reported on ErrorOutput and
\* ErrorOutput was synced.  Every Fatal call gets there; no other call exits.
C9_FatalExits ==
    /\ [](exitCode = Exit1 =>
            \E g \in Goroutines :
                /\ pc[g] = "exited" /\ loc[g].lvl = FatalLevel
                /\ IF loc[g].lvl >= loc[g].thr
                   THEN /\ obs[g].writes = 1 /\ obs[g].wdone = 1
                        /\ obs[g].freeFinal = 1 /\ obs[g].freeTemp = 1
                        /\ obs[g].ewrites = (IF loc[g].res = Nil THEN 0 ELSE 1)
                        /\ obs[g].esyncs = obs[g].ewrites
                   ELSE obs[g].writes = 0 /\ obs[g].ewrites = 0)
    /\ [](\A g \in Goroutines : pc[g] = "exited" => exitCode = Exit1)
    /\ \A g \in Goroutines : InFatal(g) ~> (exitCode = Exit1)

\* Fatal has exited after a failed write that it reported
C9_Witness ==
    /\ exitCode = Exit1
    /\ \E g \in Goroutines :
        pc[g] = "exited" /\ loc[g].res # Nil /\ obs[g].ewrites = 1

\* C10: Clone gives a different encoder with the same bytes and the same
\* time layout, and from then on the two are independent: adding a field to
\* one encoder, or formatting an entry from it, changes the bytes of no other
\* encoder the client holds.
C10_CloneIndependent ==
    /\ [](client.last.op = "Clone" =>
            /\ client.last.c # client.last.e
            /\ client.last.c \in client.own
            /\ Bytes(heap, client.last.c) = Bytes(heap, client.last.e)
            /\ heap.enc[client.last.c].timeFmt = heap.enc[client.last.e].timeFmt)
    /\ [][\A e \in client.own \cap client'.own :
            \/ client'.last.op = "Add" /\ client'.last.e = e
            \/ /\ Bytes(heap, e)' = Bytes(heap, e)
               /\ heap'.enc[e].timeFmt = heap.enc[e].timeFmt]_vars

\* a field has just been added to one of two encoders that a Clone had made
\* equal, and the other still has the bytes it had
C10_Witness ==
    /\ client.last.op = "Add"
    /\ \E o \in client.own :
        /\ o # client.last.e
        /\ Len(Bytes(heap, o)) > 0
        /\ Len(Bytes(heap, client.last.e)) > Len(Bytes(heap, o))
        /\ SubSeq(Bytes(heap, client.last.e), 1, Len(Bytes(heap, o))) = Bytes(heap, o)

\* the fragments the fields of one call make on an encoder without context
FieldsText(fields) == addFields([bytes |-> <<>>, firstNested |-> FALSE], fields).B.bytes

\* the entries a call of goroutine g may write: its header, the logger's
\* context (none: Init gives the logger an encoder without fields), its own
\* fields
EntriesOf(g) ==
    {addLevel(loc[g].lvl) \o addTime(RFC3339, t) \o addCaller(c, n)
        \o addMessage(loc[g].msg)
        \o (IF FieldsText(loc[g].fields) = <<>> THEN <<>>
            ELSE <<" ">> \o FieldsText(loc[g].fields))
        \o <<"\n">> : c \in Callers, n \in Lines, t \in Times}

\* C11: log calls leave the logger's own encoder as Init made it (no bytes,
\* the RFC3339 layout), in every interleaving, and the entry of a call holds
\* the logger's context and the fields of that call only: no field of one
\* call shows in the entry of another.
C11_ContextKept ==
    /\ Bytes(heap, dlogger.Encoder) = <<>>
    /\ heap.enc[dlogger.Encoder].timeFmt = RFC3339
    /\ heap.enc[dlogger.Encoder].firstNested = FALSE
    /\ \A g \in Goroutines :
        /\ obs[g].line # <<>> => obs[g].line \in EntriesOf(g)
        /\ WritingEntry(g) => View(g) \in EntriesOf(g)

\* a call with a field and a call without one have both assembled their
\* entries and stand in WriteEntry together
C11_Witness ==
    \E g \in Goroutines, o \in Goroutines :
        /\ loc[g].fields # <<>> /\ loc[o].fields = <<>>
        /\ WritingEntry(g) /\ WritingEntry(o)
        /\ Len(obs[g].line) > Len(obs[o].line)

\* C12: the line WriteEntry hands to the sink is "[" level tag "]", then " "
\* and the timestamp unless the layout is empty, then " [" file ":" line "]",
\* then " " and the message, then " " and the encoder's bytes unless it has
\* none, then one newline.
C12_LineFormat ==
    client.last.op = "WriteEntry" =>
        LET L == client.last
            ctx == Bytes(heap, L.e)
            layout == heap.enc[L.e].timeFmt
        IN L.line = <<"[">> \o LevelTag(L.lvl) \o <<"]">>
                    \o (IF layout = "" THEN <<>> ELSE <<" ">> \o AppendFormat(L.t, layout))
                    \o <<" ", "[">> \o L.caller \o <<":">> \o AppendInt(L.lno) \o <<"]">>
                    \o <<" ">> \o L.msg
                    \o (IF ctx = <<>> THEN <<>> ELSE <<" ">> \o ctx)
                    \o <<"\n">>

\* an encoder made with TextNoTime and without fields has written
\* "[I] [f:42] m" and the newline
C12_Witness ==
    /\ client.last.op = "WriteEntry"
    /\ heap.enc[client.last.e].timeFmt = ""
    /\ Bytes(heap, client.last.e) = <<>>
    /\ client.last.line = <<"[", "I", "]", " ", "[", "f", ":", "4", "2", "]", " ", "m", "\n">>

\* the bytes b have single spaces between fragments and nowhere else
Separated(b) ==
    /\ b # <<>> => (b[1] # " " /\ b[Len(b)] # " ")
    /\ \A i \in 1..(Len(b) - 1) :
        /\ ~(b[i] = " " /\ b[i + 1] = " ")
        /\ ~(b[i] = "{" /\ b[i + 1] = " ")
        /\ ~(b[i] = " " /\ b[i + 1] = "}")
        /\ b[i] = "}" => b[i + 1] \in {" ", "}"}
        /\ b[i + 1] = "{" => b[i] = "="

\* C13: after any additions to an encoder that started empty (values without
\* spaces and braces), callbacks that add none, one or several fields, nest
\* or fail included, the buffer never starts or ends with a space, has no two
\* spaces in a row, no space after "{" or before "}", and what follows a "}"
\* is a space or the "}" of the enclosing object; the flag is clear between
\* additions.
C13_Separators ==
    \A e \in client.own :
        /\ Separated(Bytes(heap, e))
        /\ heap.enc[e].firstNested = FALSE

\* an object with a nested empty object, a nested two-field object and a
\* string, followed by a string field: n={e={} o={k=v p=100} k=v} k=v
C13_Witness ==
    \E e \in client.own :
        Bytes(heap, e) = <<"n", "=", "{", "e", "=", "{", "}", " ",
                           "o", "=", "{", "k", "=", "v", " ", "p", "=", "1", "0", "0", "}", " ",
                           "k", "=", "v", "}", " ", "k", "=", "v">>

RECURSIVE Frag(_)
RECURSIVE Joined(_, _)
\* the fragments of fields[i..] with one space between them
Joined(fields, i) ==
    IF i > Len(fields) THEN <<>>
    ELSE Frag(fields[i]) \o (IF i < Len(fields) THEN <<" ">> ELSE <<>>)
         \o Joined(fields, i + 1)

\* the fragment of one field: key=value, an object as {its fragments}
Frag(f) ==
    f.key \o <<"=">> \o
    CASE f.kind = "String" -> f.val
      [] f.kind = "Int" -> AppendInt(f.val)
      [] f.kind = "Bool" -> (IF f.val THEN <<"t", "r", "u", "e">>
                             ELSE <<"f", "a", "l", "s", "e">>)
      [] f.kind = "Object" -> (IF f.obj.t = "int" THEN AppendInt(f.obj.v) ELSE f.obj.v)
      [] OTHER -> <<"{">> \o Joined(f.obj.fields, 1) \o <<"}">>

\* the bytes of b extended by one more fragment
Extended(b, frag) == b \o (IF b = <<>> THEN <<>> ELSE <<" ">>) \o frag

\* this step is an addition to an encoder
AddStep == client'.last.op = "Add" /\ client'.nops = client.nops + 1

\* C14: every addition appends one fragment, that of the field added, after
\* the bytes the buffer had, which stay as they were: the fragments stand in
\* the order of the additions, a repeated key gives a fragment each time, and
\* the buffers of the other encoders do not change.
C14_AppendOnly ==
    [][AddStep =>
        /\ Bytes(heap', client'.last.e) =
              Extended(Bytes(heap, client'.last.e), Frag(client'.last.f))
        /\ \A o \in client.own \ {client'.last.e} : Bytes(heap', o) = Bytes(heap, o)]_vars

\* the same string field added twice around an integer: k=v p=100 k=v
C14_Witness ==
    /\ client.last.op = "Add"
    /\ Bytes(heap, client.last.e) =
          <<"k", "=", "v", " ", "p", "=", "1", "0", "0", " ", "k", "=", "v">>

\* the addition before this step was an AddMarshaler that failed, on the
\* encoder this step adds to
AfterFailed == client.last.op = "Add" /\ client.last.err # Nil
               /\ client'.last.e = client.last.e

\* C15: AddMarshaler returns the error its callback returned, nil when it
\* returned none; either way it has appended the closing "}" and left the
\* flag clear, and the field added next is an ordinary fragment after one
\* space.  No other addition returns an error.
C15_MarshalerError ==
    /\ [](client.last.op = "Add" =>
            IF client.last.f.kind = "Marshaler"
            THEN /\ client.last.err = client.last.f.obj.err
                 /\ Bytes(heap, client.last.e)[Len(Bytes(heap, client.last.e))] = "}"
                 /\ heap.enc[client.last.e].firstNested = FALSE
            ELSE client.last.err = Nil)
    /\ [][(AddStep /\ AfterFailed) =>
            Bytes(heap', client.last.e) =
                Bytes(heap, client.last.e) \o <<" ">> \o Frag(client'.last.f)]_vars

\* a string field added after an object whose callback added nothing and
\* failed: x={} k=v
C15_Witness ==
    /\ client.last.op = "Add" /\ client.last.err = Nil
    /\ Bytes(heap, client.last.e) = <<"x", "=", "{", "}", " ", "k", "=", "v">>

\* goroutine g is in the call op of internalError on ErrorOutput
Reporting(g, op) ==
    /\ loc[g].ws = "ErrorOutput" /\ loc[g].op = op
    /\ pc[g] \in {"lock", "ws_write", "ws_write2", "ws_sync", "unlock"}

\* C17: when WriteEntry returns an error, log writes the error's text and a
\* newline to ErrorOutput, once, then calls ErrorOutput.Sync, once; it does
\* not write to Output again, frees the clone, and the call returns to its
\* caller unless it is a Panic or a Fatal.  Without an error ErrorOutput is
\* not touched.
C17_ErrorReported ==
    /\ [](\A g \in Goroutines :
            /\ Reporting(g, "Write") =>
                /\ loc[g].res # Nil
                /\ View(g) = ErrorText(loc[g].res) \o <<"\n">>
                /\ obs[g].esyncs = 0
            /\ Reporting(g, "Sync") => (obs[g].ewrites = 1 /\ obs[g].esyncs <= 1)
            /\ (Returned(g) /\ loc[g].lvl >= loc[g].thr) =>
                /\ obs[g].writes = 1 /\ obs[g].freeTemp = 1 /\ Alive
                /\ obs[g].ewrites = (IF loc[g].res = Nil THEN 0 ELSE 1)
                /\ obs[g].esyncs = obs[g].ewrites)
    /\ [][\A g \in Goroutines :
            (pc[g] = "logret" /\ pc'[g] # "logret"
                /\ loc[g].lvl \notin {PanicLevel, FatalLevel})
            => (pc'[g] = "idle" /\ exitCode' = Running)]_vars
    /\ \A g \in Goroutines :
            (pc[g] = "we_free" /\ EntryError(g) # Nil) ~> Returned(g)

\* a Warn whose write failed has reported the error, synced, and come back
C17_Witness ==
    \E g \in Goroutines :
        /\ Returned(g) /\ loc[g].lvl = WarnLevel
        /\ loc[g].res = ErrSink
        /\ obs[g].ewrites = 1 /\ obs[g].esyncs = 1 /\ obs[g].freeTemp = 1

\* C18: whatever an encoder held when it was freed, also the flag left set
\* by a callback that panicked, what a client reads from it after it got it
\* back from the pool (through NewTextEncoder, Clone, or as the final of
\* WriteEntry) is what it would read had the pool made a new object: the
\* same bytes after every operation, the same layout, the same lines.
C18_NoCarryOver ==
    /\ \A e \in client.own :
        /\ Bytes(heap, e) = client.ref[e].bytes
        /\ heap.enc[e].timeFmt = client.ref[e].timeFmt
    /\ client.last.op = "WriteEntry" => client.last.line = client.last.refline

\* an encoder that came back from the pool with the flag still set, where a
\* new one has it clear, has been given a field
C18_Witness ==
    /\ client.last.op = "Add"
    /\ client.last.stale
    /\ client.last.e \in client.own
    /\ Len(Bytes(heap, client.last.e)) > 0

\* ------------------------------------------------ Init, syncEntry, Close
\* The main goroutine calls Init, logs, and calls Close; each successful Init
\* starts a goroutine running syncEntry(f).

\* os.OpenFile failed
ErrOpen == [kind |-> "open"]

\* the file dlogger.Output wraps is being written by a log call
WriteInProgress(i) ==
    /\ proc.out = i
    /\ \E g \in Goroutines : pc[g] = "ws_write2" /\ loc[g].ws = "Output"

\* Init: os.OpenFile returned an error, which Init returns
InitFail ==
    /\ Alive /\ proc.main \in {"start", "ready", "closed"} /\ pc[1] = "idle"
    /\ proc.inits < MaxInits
    /\ proc.initErr = Nil
    /\ proc' = [proc EXCEPT !.initErr = ErrOpen]
    /\ UNCHANGED <<dlogger, heap, pc, loc, lws, sink, exitCode, ncalls, obs, wlog, client>>

\* Init: the file is open; dlogger is a new logger over a new encoder, its
\* Output a new lockedWriteSyncer of the file; syncFile = f; go syncEntry(f)
InitOk(e) ==
    /\ Alive /\ proc.main \in {"start", "ready", "closed"} /\ pc[1] = "idle"
    /\ proc.inits < MaxInits
    /\ e \in GetChoices(heap)
    /\ heap' = NewTextEncoder(heap, e, <<>>)
    /\ dlogger' = MakeMeta(e)
    /\ lws' = [lws EXCEPT !["Output"] = FALSE]
    /\ sink' = [sink EXCEPT !["Output"] = [stream |-> <<>>, synced |-> TRUE]]
    /\ wlog' = [wlog EXCEPT !["Output"] = <<>>]
    /\ LET i == proc.inits + 1
       IN proc' = [proc EXCEPT !.main = "ready", !.inits = i, !.initErr = Nil,
                               !.syncFile = i, !.out = i,
                               !.file[i] = "open", !.bg[i] = "start"]
    /\ UNCHANGED <<pc, loc, exitCode, ncalls, obs, client>>

\* syncEntry: syncTicker = time.NewTicker(...)
SyncEntryStart(i) ==
    /\ Alive /\ proc.bg[i] = "start"
    /\ proc' = [proc EXCEPT !.bg[i] = "wait", !.syncTicker = i,
                            !.tickerVals = @ \cup {i},
                            !.ticker[i].made = TRUE]
    /\ UNCHANGED <<dlogger, heap, pc, loc, lws, sink, exitCode, ncalls, obs, wlog, client>>

\* a running ticker puts a tick on its channel, which holds one
Tick(i) ==
    /\ Alive
    /\ proc.ticker[i].made /\ ~proc.ticker[i].stopped /\ proc.ticker[i].pending = 0
    /\ proc' = [proc EXCEPT !.ticker[i].pending = 1]
    /\ UNCHANGED <<dlogger, heap, pc, loc, lws, sink, exitCode, ncalls, obs, wlog, client>>

\* syncEntry: for range syncTicker.C takes a tick and calls f.Sync()
SyncEntryRecv(i) ==
    /\ Alive /\ proc.bg[i] = "wait"
    /\ proc.ticker[i].pending = 1
    /\ proc' = [proc EXCEPT !.bg[i] = "syncing", !.ticker[i].pending = 0]
    /\ UNCHANGED <<dlogger, heap, pc, loc, lws, sink, exitCode, ncalls, obs, wlog, client>>

\* syncEntry: f.Sync() returns (on a closed file, with an error nobody reads)
\* and the loop waits for the next tick
SyncEntrySyncEnd(i) ==
    /\ Alive /\ proc.bg[i] = "syncing"
    /\ proc' = [proc EXCEPT !.bg[i] = "wait"]
    /\ sink' = IF proc.out = i /\ proc.file[i] = "open"
               THEN [sink EXCEPT !["Output"].synced = TRUE] ELSE sink
    /\ UNCHANGED <<dlogger, heap, pc, loc, lws, exitCode, ncalls, obs, wlog, client>>

\* Close: syncTicker.Stop().  The read of syncTicker is not ordered with the
\* writes of the sync goroutines: it gives nil or any value written so far.
\* Stop on a nil *Ticker panics.
CloseStop(t) ==
    /\ Alive /\ proc.main = "ready" /\ pc[1] = "idle"
    /\ t \in proc.tickerVals
    /\ IF t = NoTicker
       THEN /\ exitCode' = Panicked
            /\ proc' = [proc EXCEPT !.main = "crashed"]
       ELSE /\ proc' = [proc EXCEPT !.main = "close_sync", !.ticker[t].stopped = TRUE]
            /\ UNCHANGED exitCode
    /\ UNCHANGED <<dlogger, heap, pc, loc, lws, sink, ncalls, obs, wlog, client>>

\* Close: syncFile.Sync() is called
CloseSyncBegin ==
    /\ Alive /\ proc.main = "close_sync"
    /\ proc' = [proc EXCEPT !.main = "close_syncing"]
    /\ UNCHANGED <<dlogger, heap, pc, loc, lws, sink, exitCode, ncalls, obs, wlog, client>>

\* Close: syncFile.Sync() returns
CloseSyncEnd ==
    /\ Alive /\ proc.main = "close_syncing"
    /\ proc' = [proc EXCEPT !.main = "close_close"]
    /\ sink' = IF proc.out = proc.syncFile
               THEN [sink EXCEPT !["Output"].synced = TRUE] ELSE sink
    /\ UNCHANGED <<dlogger, heap, pc, loc, lws, exitCode, ncalls, obs, wlog, client>>

\* Close: syncFile.Close()
CloseClose ==
    /\ Alive /\ proc.main = "close_close"
    /\ proc' = [proc EXCEPT !.main = "closed", !.file[proc.syncFile] = "closed"]
    /\ UNCHANGED <<dlogger, heap, pc, loc, lws, sink, exitCode, ncalls, obs, wlog, client>>

\* the process before Init(filepath): dlogger is nil
Boot ==
    /\ dlogger = NoMeta
    /\ heap = Heap0
    /\ pc = [g \in Goroutines |-> "idle"]
    /\ loc = [g \in Goroutines |-> Loc0]
    /\ lws = [w \in Sinks |-> FALSE]
    /\ sink = [w \in Sinks |-> [stream |-> <<>>, synced |-> TRUE]]
    /\ exitCode = Running
    /\ ncalls = 0
    /\ obs = [g \in Goroutines |-> Obs0]
    /\ wlog = [w \in Sinks |-> <<>>]
    /\ client = Client0
    /\ proc = Proc0

\* the file takes what it is given
FileOutcomes(len) == {[n |-> len, err |-> Nil]}

\* The main goroutine, as TestDlog and BenchmarkDlog: Init, Info with a
\* field, Close, in any number and order the API allows after a successful
\* Init; the sync goroutines run when the scheduler lets them.
InitNext ==
    \/ InitFail
    \/ \E e \in EncId : InitOk(e)
    \/ \E m \in Msgs : proc.main = "ready" /\ LogCall(1, InfoLevel, m, <<FString>>)
    \/ \E c \in EncId : CloneStep(1, c)
    \/ \E f \in EncId, c \in Callers, n \in Lines, t \in Times : WriteEntryGet(1, f, c, n, t)
    \/ Lock(1)
    \/ \E o \in FileOutcomes(loc[1].buf.len) : WsWriteBegin(1, o)
    \/ WsWriteEnd(1)
    \/ Unlock(1)
    \/ WriteEntryFree(1)
    \/ FreeTemp(1)
    \/ Return(1)
    \/ \E t \in Inits \cup {NoTicker} : CloseStop(t)
    \/ CloseSyncBegin
    \/ CloseSyncEnd
    \/ CloseClose
    \/ \E i \in Inits : SyncEntryStart(i)
    \/ \E i \in Inits : Tick(i)
    \/ \E i \in Inits : SyncEntryRecv(i)
    \/ \E i \in Inits : SyncEntrySyncEnd(i)

InitSpec == Boot /\ [][InitNext]_vars

\* C16: after a successful Init, log calls followed by Close complete without
\* a crash in every scheduling of the sync goroutine: the process never
\* panics, and when Close has returned the ticker of the last Init is
\* stopped and the file is synced and closed.
C16_CloseCompletes ==
    /\ exitCode # Panicked
    /\ proc.main = "closed" =>
          /\ proc.ticker[proc.inits].stopped
          /\ sink["Output"].synced
          /\ proc.file[proc.syncFile] = "closed"

\* C19: every access to the file opened by Init is serialised by the lock of
\* dlogger.Output: no Sync of a sync goroutine or of Close executes on the
\* file while a log call's Write on it is in progress, and no Sync reaches
\* the file after Close has closed it.
C19_FileSerialised ==
    /\ \A i \in Inits :
          proc.bg[i] = "syncing" => ~WriteInProgress(i) /\ proc.file[i] = "open"
    /\ proc.main = "close_syncing" => ~WriteInProgress(proc.syncFile)

\* C20: the periodic sync task is stoppable: when Close has returned, no
\* sync goroutine waits on a stopped ticker whose channel is empty (it would
\* wait for ever), and once Init has been called again the goroutine of the
\* earlier Init is not running any more.
C20_TaskStops ==
    /\ proc.main = "closed" =>
          \A i \in Inits :
              ~(proc.bg[i] = "wait" /\ proc.ticker[i].stopped
                  /\ proc.ticker[i].pending = 0)
    /\ \A i \in Inits : i < proc.inits => proc.bg[i] \notin {"start", "wait", "syncing"}
====
